---- MODULE Spec2Model ----
(***************************************************************************)
(* A model of send2mail.py: one run of main(), from the parsed command     *)
(* line to the exit code, with the SMTP session driven by send_email.      *)
(*                                                                         *)
(* Python strings are sequences of one-character strings.  An optional     *)
(* argument is a record [some, v]: None is [some |-> FALSE, v |-> <<>>].   *)
(***************************************************************************)
EXTENDS Integers, Sequences, FiniteSets, TLC

VARIABLES
    args,         \* argparse.Namespace: text, text_file, auth, auth_file, sender, to, subject, files, files_list
    fs,           \* the file system: path -> "ok" | "missing" | "dir" | "noperm" | "oserror"
    list_content, \* what reading the --files-list file gives: [ok, v]
    text_content, \* what reading the --text-file file gives: [ok, v]
    pc,           \* position of main / send_email
    exit_code,    \* value main returns (NoExit while running)
    file_paths,   \* main's file_paths
    checked,      \* paths handed to validate_file_path, in call order
    body_src,     \* which source get_email_body used: "none" | "file" | "text" | "manifest"
    body,         \* the text get_email_body returned ("" before the call)
    message,      \* the MIME message: [built, From, To, parts]
    attach_idx,   \* attach_files: index of the next source
    attach_log,   \* attach_files: <<[path, ok]>> one entry per source tried
    success,      \* attach_files: the success flag
    smtp_server,  \* send_email's smtp_server: FALSE is None, TRUE is a session object
    events,       \* SMTP calls made, in order: <<[op, res]>>, res = "ok" or the exception class
    cred,         \* credential parsed in send_email: [ok, username, password, exc]
    ret,          \* value send_email is returning (NoExit until a return statement ran)
    open_handles, \* file handles currently open
    reads         \* files whose content was read for embedding (body file, attachments)

vars == <<args, fs, list_content, text_content, pc, exit_code, file_paths, checked, body_src, body,
          message, attach_idx, attach_log, success, smtp_server, events, cred,
          ret, open_handles, reads>>

(***************************************************************************)
(* Exit codes and constants of the program.                                *)
(***************************************************************************)
EXIT_SUCCESS == 0
EXIT_ARGUMENT_ERROR == 1
EXIT_FILE_NOT_FOUND == 2
EXIT_FILE_READ_ERROR == 3
EXIT_ATTACHMENT_ERROR == 4
EXIT_SMTP_CONNECTION_ERROR == 5
EXIT_SMTP_AUTH_ERROR == 6
EXIT_SMTP_SEND_ERROR == 7
EXIT_INVALID_EMAIL == 8
EXIT_NO_FILES == 9
EXIT_UNKNOWN_ERROR == 99

\* "no value yet" for exit_code and ret
NoExit == 0 - 1

\* ADMIN_MAIL = "noreply@example.com"
ADMIN_MAIL == <<"n","o","r","e","p","l","y","@","e","x","a","m","p","l","e",".","c","o","m">>

\* A character outside ASCII is written as its code point, "U+0420".
\* the default of --subject (line 562)
DEFAULT_SUBJECT ==
    <<"U+041F", "U+0438", "U+0441", "U+044C", "U+043C", "U+043E", " ", "U+0441", " ",
      "U+0432", "U+043B", "U+043E", "U+0436", "U+0435", "U+043D", "U+0438", "U+044F",
      "U+043C", "U+0438">>

\* the disclaimer add_signature appends (line 156)
SIGNATURE ==
    <<"\n", "\n", "U+042D", "U+0442", "U+043E", " ", "U+043F", "U+0438", "U+0441",
      "U+044C", "U+043C", "U+043E", " ", "U+043E", "U+0442", "U+043F", "U+0440",
      "U+0430", "U+0432", "U+043B", "U+0435", "U+043D", "U+043E", " ", "U+0430",
      "U+0432", "U+0442", "U+043E", "U+043C", "U+0430", "U+0442", "U+0438", "U+0447",
      "U+0435", "U+0441", "U+043A", "U+0438", ".", " ", "U+041E", "U+0442", "U+0432",
      "U+0435", "U+0447", "U+0430", "U+0442", "U+044C", " ", "U+043D", "U+0430", " ",
      "U+043D", "U+0435", "U+0433", "U+043E", " ", "U+043D", "U+0435", " ", "U+043D",
      "U+0443", "U+0436", "U+043D", "U+043E", ".">>

\* the reply-to line of the signature, up to the address (lines 159, 161)
REPLY_TO_PREFIX ==
    <<"\n", "U+041E", "U+0431", "U+0440", "U+0430", "U+0442", "U+043D", "U+044B",
      "U+0439", " ", "U+0430", "U+0434", "U+0440", "U+0435", "U+0441", " ", "U+0434",
      "U+043B", "U+044F", " ", "U+0441", "U+0432", "U+044F", "U+0437", "U+0438", ":",
      " ">>

\* the first line of the generated body (line 360)
MANIFEST_HEADER ==
    <<"U+0412", "U+0430", "U+043C", " ", "U+043E", "U+0442", "U+043F", "U+0440",
      "U+0430", "U+0432", "U+043B", "U+0435", "U+043D", "U+044B", " ", "U+0444",
      "U+0430", "U+0439", "U+043B", "U+044B", ":", "\n">>

(***************************************************************************)
(* Optional values and Python truthiness.                                  *)
(***************************************************************************)
None == [some |-> FALSE, v |-> <<>>]
Some(x) == [some |-> TRUE, v |-> x]

\* bool(x) of an Optional[str]: None and "" are falsy
Truthy(o) == o.some /\ o.v # <<>>

\* bool(x) of an Optional object without __bool__/__len__ (Path, file object)
TruthyObj(o) == o.some

(***************************************************************************)
(* str.strip() and str.split(sep).                                         *)
(***************************************************************************)
\* the characters with str.isspace(); those without a TLA+ escape are written
\* as their code point
Whitespace ==
    {" ", "\t", "\n", "\r", "\f", "U+000B", "U+001C", "U+001D", "U+001E", "U+001F",
     "U+0085", "U+00A0", "U+1680", "U+2000", "U+2001", "U+2002", "U+2003", "U+2004",
     "U+2005", "U+2006", "U+2007", "U+2008", "U+2009", "U+200A", "U+2028", "U+2029",
     "U+202F", "U+205F", "U+3000"}

RECURSIVE LStrip(_)
LStrip(s) == IF s # <<>> /\ Head(s) \in Whitespace THEN LStrip(Tail(s)) ELSE s

RECURSIVE RStrip(_)
RStrip(s) ==
    IF s # <<>> /\ s[Len(s)] \in Whitespace THEN RStrip(SubSeq(s, 1, Len(s) - 1)) ELSE s

Strip(s) == RStrip(LStrip(s))

\* s.split(sep) for a one-character sep: always at least one piece
RECURSIVE SplitFrom(_, _, _, _)
SplitFrom(s, seps, i, cur) ==
    IF i > Len(s) THEN <<cur>>
    ELSE IF s[i] \in seps THEN <<cur>> \o SplitFrom(s, seps, i + 1, <<>>)
    ELSE SplitFrom(s, seps, i + 1, Append(cur, s[i]))

Split(s, sep) == SplitFrom(s, {sep}, 1, <<>>)

HasChar(s, c) == \E i \in 1..Len(s) : s[i] = c

\* sep.join(items)
RECURSIVE Join(_, _)
Join(items, sep) ==
    IF items = <<>> THEN <<>>
    ELSE IF Len(items) = 1 THEN items[1]
    ELSE items[1] \o <<sep>> \o Join(Tail(items), sep)

(***************************************************************************)
(* pathlib.Path(s): empty and "." components are dropped, and with them a  *)
(* trailing "/"; exactly two leading slashes are kept; the empty path is   *)
(* ".".  Paths are held in this normal form.                               *)
(***************************************************************************)
IsComponent(c) == c # <<>> /\ c # <<".">>

PathComponents(s) == SelectSeq(Split(s, "/"), IsComponent)

PathRoot(s) ==
    IF s = <<>> \/ s[1] # "/" THEN <<>>
    ELSE IF Len(s) >= 2 /\ s[2] = "/" /\ ~(Len(s) >= 3 /\ s[3] = "/") THEN <<"/", "/">>
    ELSE <<"/">>

PathOf(s) ==
    IF PathComponents(s) = <<>>
    THEN IF PathRoot(s) = <<>> THEN <<".">> ELSE PathRoot(s)
    ELSE PathRoot(s) \o Join(PathComponents(s), "/")

\* Path.name: the last component, "" when there is none
Basename(path) ==
    IF PathComponents(path) = <<>> THEN <<>>
    ELSE PathComponents(path)[Len(PathComponents(path))]

(***************************************************************************)
(* validate_email: re.match of                                             *)
(*   ^[a-zA-Z0-9_.+-]+@[a-zA-Z0-9-]+\.[a-zA-Z0-9].+$                       *)
(* Neither class holds "@" and the domain class holds no ".", so the "@"   *)
(* matched is the first one and the "." matched is the first character     *)
(* after the domain run.  "." matches anything but a newline, "$" matches  *)
(* at the end or before a final newline.                                   *)
(***************************************************************************)
Alnum ==
    {"a","b","c","d","e","f","g","h","i","j","k","l","m","n","o","p","q","r","s","t",
     "u","v","w","x","y","z",
     "A","B","C","D","E","F","G","H","I","J","K","L","M","N","O","P","Q","R","S","T",
     "U","V","W","X","Y","Z",
     "0","1","2","3","4","5","6","7","8","9"}

LocalChars == Alnum \cup {"_", ".", "+", "-"}
DomainChars == Alnum \cup {"-"}

\* least index in lo..Len(s) whose character satisfies the test, 0 when none
FirstIn(s, lo, set) ==
    IF \E k \in lo..Len(s) : s[k] \in set
    THEN CHOOSE k \in lo..Len(s) : s[k] \in set /\ \A m \in lo..(k - 1) : s[m] \notin set
    ELSE 0

FirstNotIn(s, lo, set) ==
    IF \E k \in lo..Len(s) : s[k] \notin set
    THEN CHOOSE k \in lo..Len(s) : s[k] \notin set /\ \A m \in lo..(k - 1) : s[m] \in set
    ELSE 0

\* ".+$" on the rest of the string
MatchesRest(r) ==
    LET x == IF r # <<>> /\ r[Len(r)] = "\n" THEN SubSeq(r, 1, Len(r) - 1) ELSE r
    IN  x # <<>> /\ \A k \in 1..Len(x) : x[k] # "\n"

\* a pattern that allows one dot only in the domain: [a-zA-Z0-9-]+\.[a-zA-Z0-9]+
validate_email_no_subdomain(email) ==
    LET at == FirstIn(email, 1, {"@"})
    IN  /\ at > 1
        /\ \A k \in 1..(at - 1) : email[k] \in LocalChars
        /\ LET dot == FirstNotIn(email, at + 1, DomainChars)
           IN  /\ dot > at + 1
               /\ email[dot] = "."
               /\ dot + 1 <= Len(email)
               /\ \A k \in (dot + 1)..Len(email) : email[k] \in Alnum

validate_email(email) ==
    LET at == FirstIn(email, 1, {"@"})
    IN  /\ at > 1
        /\ \A k \in 1..(at - 1) : email[k] \in LocalChars
        /\ LET dot == FirstNotIn(email, at + 1, DomainChars)
           IN  /\ dot > at + 1
               /\ email[dot] = "."
               /\ dot + 1 <= Len(email)
               /\ email[dot + 1] \in Alnum
               /\ MatchesRest(SubSeq(email, dot + 2, Len(email)))

(***************************************************************************)
(* validate_file_path: exists, is a regular file, is readable.  The result *)
(* is "True", "False", or "OSError" when Path.exists() raises (a parent    *)
(* directory without search permission, a name that is too long).          *)
(***************************************************************************)
FsStatus(path) == IF path \in DOMAIN fs THEN fs[path] ELSE "missing"

validate_file_path(path) ==
    IF FsStatus(path) = "oserror" THEN "OSError"
    ELSE IF FsStatus(path) = "missing" THEN "False"
    ELSE IF FsStatus(path) = "dir" THEN "False"
    ELSE IF FsStatus(path) = "noperm" THEN "False"
    ELSE "True"

(***************************************************************************)
(* parse_file_paths.  The result is [paths, code, checked, raised];        *)
(* checked is the sequence of validate_file_path calls the function made,  *)
(* raised tells that an exception left the function.                       *)
(***************************************************************************)
Resolved(paths, code, chk) ==
    [paths |-> paths, code |-> code, checked |-> chk, raised |-> FALSE]
Raised(chk) ==
    [paths |-> <<>>, code |-> NoExit, checked |-> chk, raised |-> TRUE]

\* the lines of a text file as "for line in f" yields them (universal
\* newlines); a final empty piece is no line, and is blank anyway
Lines(content) == SplitFrom(content, {"\n", "\r"}, 1, <<>>)

\* a loop that drops a path it has already taken
RECURSIVE ListLoop_dedup(_, _, _, _)
ListLoop_dedup(lines, i, acc, chk) ==
    IF i > Len(lines) THEN Resolved(acc, EXIT_SUCCESS, chk)
    ELSE LET line == Strip(lines[i])
             path == PathOf(line)
         IN  IF line = <<>> THEN ListLoop_dedup(lines, i + 1, acc, chk)
             ELSE IF validate_file_path(path) = "OSError"
                  THEN Resolved(<<>>, EXIT_FILE_READ_ERROR, Append(chk, path))
                  ELSE IF validate_file_path(path) = "False"
                       THEN Resolved(<<>>, EXIT_FILE_NOT_FOUND, Append(chk, path))
                       ELSE IF \E k \in 1..Len(acc) : acc[k] = path
                            THEN ListLoop_dedup(lines, i + 1, acc, Append(chk, path))
                            ELSE ListLoop_dedup(lines, i + 1, Append(acc, path),
                                                Append(chk, path))

\* lines 427-433: the loop over the lines the list file yields; an exception
\* of validate_file_path is caught at line 435
RECURSIVE ListLoop(_, _, _, _)
ListLoop(lines, i, acc, chk) ==
    IF i > Len(lines) THEN Resolved(acc, EXIT_SUCCESS, chk)
    ELSE LET line == Strip(lines[i])
             path == PathOf(line)
         IN  IF line = <<>> THEN ListLoop(lines, i + 1, acc, chk)
             ELSE IF validate_file_path(path) = "OSError"
                  THEN Resolved(<<>>, EXIT_FILE_READ_ERROR, Append(chk, path))
                  ELSE IF validate_file_path(path) = "False"
                       THEN Resolved(<<>>, EXIT_FILE_NOT_FOUND, Append(chk, path))
                       ELSE ListLoop(lines, i + 1, Append(acc, path), Append(chk, path))

\* lines 449-457: the loop over the comma-separated segments; an exception of
\* validate_file_path leaves the function
RECURSIVE InlineLoop(_, _, _, _)
InlineLoop(segs, i, acc, chk) ==
    IF i > Len(segs) THEN Resolved(acc, EXIT_SUCCESS, chk)
    ELSE LET file_path == Strip(segs[i])
             path == PathOf(file_path)
         IN  IF file_path = <<>> THEN InlineLoop(segs, i + 1, acc, chk)
             ELSE IF validate_file_path(path) = "OSError"
                  THEN Raised(Append(chk, path))
                  ELSE IF validate_file_path(path) = "False"
                       THEN Resolved(<<>>, EXIT_FILE_NOT_FOUND, Append(chk, path))
                       ELSE InlineLoop(segs, i + 1, Append(acc, path), Append(chk, path))

\* parse_file_paths without the tests for an empty result (lines 439, 459)
parse_file_paths_empty_ok(file_paths_str, files_list_path, content) ==
    IF TruthyObj(files_list_path)
    THEN IF validate_file_path(files_list_path.v) = "OSError"
         THEN Raised(<<files_list_path.v>>)
         ELSE IF validate_file_path(files_list_path.v) = "False"
         THEN Resolved(<<>>, EXIT_FILE_NOT_FOUND, <<files_list_path.v>>)
         ELSE LET r == ListLoop(Lines(content.v), 1, <<>>, <<files_list_path.v>>)
              IN  IF r.code # EXIT_SUCCESS THEN r
                  ELSE IF ~content.ok
                       THEN Resolved(<<>>, EXIT_FILE_READ_ERROR, r.checked)
                       ELSE r
    ELSE IF Strip(file_paths_str.v) = <<>>
         THEN Resolved(<<>>, EXIT_NO_FILES, <<>>)
         ELSE InlineLoop(Split(file_paths_str.v, ","), 1, <<>>, <<>>)

\* file_paths_str is args.files (None in list-file mode), files_list_path is
\* args.files_list; content is what reading the list file gives: content.v
\* holds the lines read, content.ok is FALSE when the open or a read failed
\* (after those lines), which line 435 catches once the lines before the
\* failure have been handled
parse_file_paths(file_paths_str, files_list_path, content) ==
    IF TruthyObj(files_list_path)
    THEN IF validate_file_path(files_list_path.v) = "OSError"
         THEN Raised(<<files_list_path.v>>)
         ELSE IF validate_file_path(files_list_path.v) = "False"
         THEN Resolved(<<>>, EXIT_FILE_NOT_FOUND, <<files_list_path.v>>)
         ELSE LET r == ListLoop(Lines(content.v), 1, <<>>, <<files_list_path.v>>)
              IN  IF r.code # EXIT_SUCCESS THEN r
                  ELSE IF ~content.ok
                       THEN Resolved(<<>>, EXIT_FILE_READ_ERROR, r.checked)
                       ELSE IF r.paths = <<>>
                            THEN Resolved(<<>>, EXIT_NO_FILES, r.checked)
                            ELSE r
    ELSE IF Strip(file_paths_str.v) = <<>>
         THEN Resolved(<<>>, EXIT_NO_FILES, <<>>)
         ELSE LET r == InlineLoop(Split(file_paths_str.v, ","), 1, <<>>, <<>>)
              IN  IF r.raised \/ r.code # EXIT_SUCCESS THEN r
                  ELSE IF r.paths = <<>> THEN Resolved(<<>>, EXIT_NO_FILES, r.checked)
                  ELSE r

(***************************************************************************)
(* Credentials: "username, password = s.split(':')" unpacks exactly two    *)
(* pieces and raises ValueError for any other number.                      *)
(***************************************************************************)
Credential(u, p) == [ok |-> TRUE, username |-> u, password |-> p, exc |-> "none"]
CredentialError(e) == [ok |-> FALSE, username |-> <<>>, password |-> <<>>, exc |-> e]
NoCredential == CredentialError("none")

\* line 272
split_auth(auth) ==
    LET parts == Split(auth, ":")
    IN  IF Len(parts) = 2 THEN Credential(parts[1], parts[2])
        ELSE CredentialError("ValueError")

\* lines 330-342: readable is whether auth_file.read() returns
read_auth_from_file(readable, content) ==
    IF ~readable THEN CredentialError("AuthError")
    ELSE LET r == split_auth(Strip(content))
         IN  IF r.ok THEN r ELSE CredentialError("AuthError")

(***************************************************************************)
(* Exception classes: the program's own (lines 47-68) and those of the     *)
(* standard library that the SMTP calls raise.                             *)
(***************************************************************************)
Parent(c) ==
    CASE c = "SMTPConnectError" -> "SMTPResponseException"
      [] c = "SMTPHeloError" -> "SMTPResponseException"
      [] c = "SMTPDataError" -> "SMTPResponseException"
      [] c = "SMTPAuthenticationError" -> "SMTPResponseException"
      [] c = "SMTPSenderRefused" -> "SMTPResponseException"
      [] c = "SMTPResponseException" -> "SMTPException"
      [] c = "SMTPRecipientsRefused" -> "SMTPException"
      [] c = "SMTPServerDisconnected" -> "SMTPException"
      [] c = "SMTPNotSupportedError" -> "SMTPException"
      [] c = "SMTPException" -> "OSError"
      [] c = "ConnectionRefusedError" -> "OSError"
      [] c = "TimeoutError" -> "OSError"
      [] c = "OSError" -> "Exception"
      [] c = "ValueError" -> "Exception"
      [] c = "FileReadError" -> "EmailSenderError"
      [] c = "AuthError" -> "EmailSenderError"
      [] c = "SMTPError" -> "EmailSenderError"
      [] c = "EmailSenderError" -> "Exception"
      [] OTHER -> "Exception"

RECURSIVE IsInstance(_, _)
IsInstance(e, cls) ==
    IF e = cls THEN TRUE
    ELSE IF e = "Exception" THEN FALSE
    ELSE IsInstance(Parent(e), cls)

\* the except clauses with the generic SMTPException clause first
send_email_except_generic_first(e) ==
    IF IsInstance(e, "SMTPException") THEN EXIT_SMTP_SEND_ERROR
    ELSE IF IsInstance(e, "SMTPConnectError") THEN EXIT_SMTP_CONNECTION_ERROR
    ELSE IF IsInstance(e, "SMTPHeloError") THEN EXIT_SMTP_CONNECTION_ERROR
    ELSE IF IsInstance(e, "SMTPDataError") THEN EXIT_SMTP_SEND_ERROR
    ELSE EXIT_UNKNOWN_ERROR

\* lines 291-305: the except clauses of send_email, in order
send_email_except(e) ==
    IF IsInstance(e, "SMTPConnectError") THEN EXIT_SMTP_CONNECTION_ERROR
    ELSE IF IsInstance(e, "SMTPHeloError") THEN EXIT_SMTP_CONNECTION_ERROR
    ELSE IF IsInstance(e, "SMTPDataError") THEN EXIT_SMTP_SEND_ERROR
    ELSE IF IsInstance(e, "SMTPException") THEN EXIT_SMTP_SEND_ERROR
    ELSE EXIT_UNKNOWN_ERROR

\* login guarded by the SMTPAuthenticationError clause alone: any other
\* exception reaches the except clauses of the outer try
login_except_auth_only(e) ==
    IF IsInstance(e, "SMTPAuthenticationError") THEN EXIT_SMTP_AUTH_ERROR
    ELSE send_email_except(e)

\* lines 280-285: the except clauses around login
login_except(e) ==
    IF IsInstance(e, "SMTPAuthenticationError") THEN EXIT_SMTP_AUTH_ERROR
    ELSE EXIT_SMTP_AUTH_ERROR

\* what the library calls can raise
ConnectRaises == {"SMTPConnectError", "ConnectionRefusedError", "TimeoutError",
                  "SMTPServerDisconnected"}
LoginRaises == {"SMTPAuthenticationError", "SMTPHeloError", "SMTPNotSupportedError",
                "SMTPException"}
SendRaises == {"SMTPDataError", "SMTPHeloError", "SMTPConnectError", "SMTPRecipientsRefused",
               "SMTPSenderRefused", "SMTPServerDisconnected", "ValueError"}
QuitRaises == {"SMTPServerDisconnected"}

(***************************************************************************)
(* The inputs of a run.                                                    *)
(***************************************************************************)
\* most paths an inline --files value names
MaxFiles == 2

FileNames == {<<"a">>, <<"b">>}
ListPath == <<"l">>
TextPath == <<"t">>

NameLists == UNION {[1..n -> FileNames] : n \in 1..MaxFiles}

\* a file in a directory: its name differs from its path
DirFile == <<"d", "/", "c">>

\* --files values: "a", "a,b", ..., a blank one, "d/c,a", "a/" (the path a)
\* and a no-break space (blank)
InlineSpecs ==
    {Join(l, ",") : l \in NameLists}
        \cup {<<" ">>, <<"d", "/", "c", ",", "a">>, <<"a", "/">>, <<"U+00A0">>}

\* contents of the --files-list file: "a\nb\n", " a<VT>\n\nb", "\n"
ListContents ==
    { <<"a", "\n", "b", "\n">>, <<" ", "a", "U+000B", "\n", "\n", "b">>, <<"\n">> }

\* the lines a list file gave before its read failed: none (also when the
\* open failed), or "a\n"
ListPrefixes == { <<>>, <<"a", "\n">> }

\* --text values: absent, "hi", and "x" followed by a lone surrogate (the
\* argv byte 0x80)
TextOpts == {None, Some(<<"h", "i">>), Some(<<"x", "U+DC80">>)}

\* what the --text-file file holds: "yo\n"
TextFileContent == <<"y", "o", "\n">>

\* what reading the --text-file file gives: its content, or a failure (the
\* open failed, or the bytes are not UTF-8)
Unread == [ok |-> FALSE, v |-> <<>>]
TextReads(status) ==
    IF status = "ok" THEN {[ok |-> TRUE, v |-> TextFileContent], Unread} ELSE {Unread}
TextFileOpts == {None, Some(TextPath)}

\* --auth values: absent, "", "u:p", "up", "u:p:q"
AuthOpts ==
    {None, Some(<<>>), Some(<<"u", ":", "p">>), Some(<<"u", "p">>),
     Some(<<"u", ":", "p", ":", "q">>)}

\* --auth-file contents: "u:p<NBSP>\n", "up\n"
AuthFileContents == {<<"u", ":", "p", "U+00A0", "\n">>, <<"u", "p", "\n">>}

ValidSender == <<"a", "@", "b", ".", "c", "d">>
InvalidSender == <<"a", "@", "b">>
ValidTo == <<"c", "@", "d", ".", "e", "f">>
InvalidTo == <<"c", "d", ".", "e", "f">>

SenderOpts == {None, Some(ValidSender), Some(InvalidSender)}
ToOpts == {ValidTo, InvalidTo}

Statuses == {"ok", "missing", "dir", "noperm", "oserror"}

NoMessage == [built |-> FALSE, From |-> <<>>, To |-> <<>>, Subject |-> <<>>, parts |-> <<>>]

\* the parts of a message: the text part carries the body, a binary part the
\* bytes of a file (named here by the path they were read from)
TextPart(text) == [kind |-> "text", name |-> <<>>, payload |-> text]
BinaryPart(filename, path) == [kind |-> "bin", name |-> filename, payload |-> path]

\* the state of main after parse_args: argparse.FileType("r") has opened the
\* --auth-file file, nothing else has happened
InitRun ==
    /\ exit_code = NoExit
    /\ body_src = "none"
    /\ body = <<>>
    /\ message = NoMessage
    /\ attach_idx = 1
    /\ attach_log = <<>>
    /\ success = TRUE
    /\ smtp_server = FALSE
    /\ events = <<>>
    /\ cred = NoCredential
    /\ ret = NoExit
    /\ reads = <<>>
    /\ open_handles = IF args.auth_file.some THEN {"auth_file"} ELSE {}

Init ==
    /\ \E text \in TextOpts, text_file \in TextFileOpts, auth \in AuthOpts,
          sender \in SenderOpts, to \in ToOpts :
       \E af \in {[f |-> None, ok |-> TRUE], [f |-> Some(<<>>), ok |-> FALSE]}
                 \cup {[f |-> Some(c), ok |-> TRUE] : c \in AuthFileContents} :
       \E fl \in {[files |-> Some(x), files_list |-> None] : x \in InlineSpecs}
                 \cup {[files |-> None, files_list |-> Some(ListPath)]} :
          args = [text |-> text, text_file |-> text_file, auth |-> auth,
                  auth_file |-> af.f, auth_file_ok |-> af.ok,
                  sender |-> sender, to |-> to, subject |-> DEFAULT_SUBJECT,
                  files |-> fl.files, files_list |-> fl.files_list]
    /\ \E sa \in Statuses, sb \in {"ok", "missing"}, sl \in {"ok", "missing"},
          st \in {"ok", "missing"} :
          /\ (~args.files_list.some => sl = "missing")
          /\ (~args.text_file.some => st = "missing")
          /\ fs = (<<"a">> :> sa) @@ (<<"b">> :> sb) @@ (DirFile :> "ok")
                  @@ (ListPath :> sl) @@ (TextPath :> st)
    /\ list_content \in
          IF args.files_list.some /\ fs[ListPath] = "ok"
          THEN {[ok |-> FALSE, v |-> c] : c \in ListPrefixes}
                   \cup {[ok |-> TRUE, v |-> c] : c \in ListContents}
          ELSE {Unread}
    /\ text_content \in IF args.text_file.some THEN TextReads(fs[TextPath]) ELSE {Unread}
    /\ InitRun
    /\ pc = "check_args"
    /\ file_paths = <<>>
    /\ checked = <<>>

(***************************************************************************)
(* main                                                                    *)
(***************************************************************************)
\* "return code" in main
Return(code) ==
    /\ exit_code' = code
    /\ pc' = "done"

\* lines 607-618: conflicting arguments
MainCheckArgs ==
    /\ pc = "check_args"
    /\ IF Truthy(args.text) /\ TruthyObj(args.text_file)
       THEN Return(EXIT_ARGUMENT_ERROR)
       ELSE IF Truthy(args.auth) /\ TruthyObj(args.auth_file)
            THEN Return(EXIT_ARGUMENT_ERROR)
            ELSE pc' = "validate_email" /\ UNCHANGED exit_code
    /\ UNCHANGED <<args, fs, list_content, text_content, file_paths, checked, body_src, body, message,
                   attach_idx, attach_log, success, smtp_server, events, cred, ret,
                   open_handles, reads>>

\* lines 620-627: sender (when given) and recipient
MainValidateEmail ==
    /\ pc = "validate_email"
    /\ IF Truthy(args.sender) /\ ~validate_email(args.sender.v)
       THEN Return(EXIT_INVALID_EMAIL)
       ELSE IF ~validate_email(args.to)
            THEN Return(EXIT_INVALID_EMAIL)
            ELSE pc' = "parse_files" /\ UNCHANGED exit_code
    /\ UNCHANGED <<args, fs, list_content, text_content, file_paths, checked, body_src, body, message,
                   attach_idx, attach_log, success, smtp_server, events, cred, ret,
                   open_handles, reads>>

\* the body file was opened: it passes through reads whether or not its
\* content could be decoded
BodyFileOpened == TruthyObj(args.text_file) /\ FsStatus(args.text_file.v) = "ok"

\* the error code of parse_file_paths tested only after the body was prepared
MainParseFilePaths_late_check ==
    /\ pc = "parse_files"
    /\ LET r == parse_file_paths(args.files, args.files_list, list_content)
       IN  /\ file_paths' = r.paths
           /\ checked' = r.checked
           /\ IF r.raised
              THEN Return(EXIT_UNKNOWN_ERROR) /\ UNCHANGED reads
              ELSE IF r.code # EXIT_SUCCESS
              THEN /\ Return(r.code)
                   /\ reads' = IF BodyFileOpened THEN Append(reads, args.text_file.v)
                               ELSE reads
              ELSE pc' = "prepare" /\ UNCHANGED <<exit_code, reads>>
    /\ UNCHANGED <<args, fs, list_content, text_content, body_src, body, message, attach_idx, attach_log,
                   success, smtp_server, events, cred, ret, open_handles>>

\* lines 629-635: the list file is opened and closed inside parse_file_paths;
\* an exception that leaves parse_file_paths is caught by main's outer
\* handler (lines 676-678), before file_paths is assigned
MainParseFilePaths ==
    /\ pc = "parse_files"
    /\ LET r == parse_file_paths(args.files, args.files_list, list_content)
       IN  /\ file_paths' = r.paths
           /\ checked' = r.checked
           /\ IF r.raised
              THEN Return(EXIT_UNKNOWN_ERROR)
              ELSE IF r.code # EXIT_SUCCESS
                   THEN Return(r.code)
                   ELSE pc' = "prepare" /\ UNCHANGED exit_code
    /\ UNCHANGED <<args, fs, list_content, text_content, body_src, body, message, attach_idx, attach_log,
                   success, smtp_server, events, cred, ret, open_handles, reads>>

(***************************************************************************)
(* The body of the message.                                                *)
(***************************************************************************)
\* str(n) for n >= 0
Digit(d) == CASE d = 0 -> "0" [] d = 1 -> "1" [] d = 2 -> "2" [] d = 3 -> "3"
              [] d = 4 -> "4" [] d = 5 -> "5" [] d = 6 -> "6" [] d = 7 -> "7"
              [] d = 8 -> "8" [] d = 9 -> "9"

RECURSIVE ToDecimal(_)
ToDecimal(n) ==
    IF n < 10 THEN <<Digit(n)>> ELSE Append(ToDecimal(n \div 10), Digit(n % 10))

\* lines 142-163: sender is Optional[str]
add_signature(text, sender) ==
    text \o SIGNATURE \o REPLY_TO_PREFIX
         \o (IF Truthy(sender) THEN sender.v ELSE ADMIN_MAIL)

\* a numbering that starts at 0
manifest_line_zero_based(i, f) == ToDecimal(i - 1) \o <<".", " ">> \o Basename(f)

\* line 361: f"{i + 1}. {f.name}" for the file at position i (counted from 1)
manifest_line(i, f) == ToDecimal(i) \o <<".", " ">> \o Basename(f)

\* lines 347-363
generate_default_email_body(paths, sender) ==
    add_signature(
        MANIFEST_HEADER \o Join([i \in 1..Len(paths) |-> manifest_line(i, paths[i])], "\n"),
        sender)

\* lines 119-139: [ok, v]; not ok stands for FileReadError, raised when the
\* open fails or when the read fails (content that is not UTF-8)
read_text_file(path) ==
    IF FsStatus(path) = "ok" /\ text_content.ok THEN [ok |-> TRUE, v |-> text_content.v]
    ELSE [ok |-> FALSE, v |-> <<>>]

\* inline text taken before the text file
get_email_body_text_first(a, paths) ==
    IF Truthy(a.text) THEN add_signature(a.text.v, a.sender)
    ELSE IF TruthyObj(a.text_file) /\ read_text_file(a.text_file.v).ok
         THEN add_signature(read_text_file(a.text_file.v).v, a.sender)
         ELSE generate_default_email_body(paths, a.sender)

\* lines 366-399: a is the argparse.Namespace
get_email_body(a, paths) ==
    IF TruthyObj(a.text_file) /\ read_text_file(a.text_file.v).ok
    THEN add_signature(read_text_file(a.text_file.v).v, a.sender)
    ELSE IF Truthy(a.text) THEN add_signature(a.text.v, a.sender)
    ELSE generate_default_email_body(paths, a.sender)

\* the surrogate code points U+D800..U+DFFF, which cannot be encoded as UTF-8;
\* an argv byte 0x80..0xFF that is not UTF-8 arrives as U+DC80..U+DCFF
HexDigits ==
    {"0", "1", "2", "3", "4", "5", "6", "7", "8", "9", "A", "B", "C", "D", "E", "F"}
Surrogates ==
    { "U+D" \o a \o b \o c :
        a \in {"8", "9", "A", "B", "C", "D", "E", "F"}, b \in HexDigits, c \in HexDigits }
Encodable(text) == \A k \in 1..Len(text) : text[k] \notin Surrogates

\* lines 166-197: MIMEText(text, "plain", "utf-8") raises when the text cannot
\* be encoded, and create_message then raises EmailSenderError: the result
\* with built FALSE
create_message(sender, recipient, subject, text) ==
    IF ~Encodable(text) THEN NoMessage
    ELSE [built |-> TRUE, From |-> sender, To |-> recipient, Subject |-> subject,
          parts |-> <<TextPart(text)>>]

\* lines 385-399: the source get_email_body takes the body from
get_email_body_source ==
    IF TruthyObj(args.text_file) /\ read_text_file(args.text_file.v).ok THEN "file"
    ELSE IF Truthy(args.text) THEN "text"
    ELSE "manifest"

\* a failure to read the body file ends the run
MainPrepare_fatal_read ==
    /\ pc = "prepare"
    /\ reads' = IF BodyFileOpened THEN Append(reads, args.text_file.v) ELSE reads
    /\ IF TruthyObj(args.text_file) /\ ~read_text_file(args.text_file.v).ok
       THEN /\ Return(EXIT_FILE_READ_ERROR)
            /\ UNCHANGED <<body_src, body, message>>
       ELSE /\ body_src' = get_email_body_source
            /\ body' = get_email_body(args, file_paths)
            /\ LET m == create_message(
                            IF Truthy(args.sender) THEN args.sender.v ELSE ADMIN_MAIL,
                            args.to, args.subject, body')
               IN  IF m.built
                   THEN message' = m /\ pc' = "attach" /\ UNCHANGED exit_code
                   ELSE Return(EXIT_UNKNOWN_ERROR) /\ UNCHANGED message
    /\ UNCHANGED <<args, fs, list_content, text_content, file_paths, checked, attach_idx,
                   attach_log, success, smtp_server, events, cred, ret, open_handles>>

\* lines 637-645: get_email_body, then create_message; the EmailSenderError of
\* create_message is caught at line 643 and main returns 99
MainPrepare ==
    /\ pc = "prepare"
    /\ body_src' = get_email_body_source
    /\ reads' = IF BodyFileOpened THEN Append(reads, args.text_file.v) ELSE reads
    /\ body' = get_email_body(args, file_paths)
    /\ LET m == create_message(
                    IF Truthy(args.sender) THEN args.sender.v ELSE ADMIN_MAIL,
                    args.to, args.subject, body')
       IN  IF m.built
           THEN message' = m /\ pc' = "attach" /\ UNCHANGED exit_code
           ELSE Return(EXIT_UNKNOWN_ERROR) /\ UNCHANGED message
    /\ UNCHANGED <<args, fs, list_content, text_content, file_paths, checked, attach_idx,
                   attach_log, success, smtp_server, events, cred, ret, open_handles>>

(***************************************************************************)
(* attach_files: one loop iteration per step; whether the open and read of *)
(* a source succeeds is the environment's choice (the path was valid when  *)
(* it was resolved, and may have changed since).                           *)
(***************************************************************************)
\* a loop that stops at the first source that fails (break)
AttachFile_break ==
    /\ pc = "attach"
    /\ attach_idx <= Len(file_paths)
    /\ \E ok \in BOOLEAN :
          /\ attach_log' = Append(attach_log, [path |-> file_paths[attach_idx], ok |-> ok])
          /\ IF ok
             THEN /\ message' = [message EXCEPT !.parts =
                        Append(@, BinaryPart(Basename(file_paths[attach_idx]),
                                            file_paths[attach_idx]))]
                  /\ reads' = Append(reads, file_paths[attach_idx])
                  /\ attach_idx' = attach_idx + 1
                  /\ UNCHANGED success
             ELSE /\ success' = FALSE
                  /\ attach_idx' = Len(file_paths) + 1
                  /\ UNCHANGED <<message, reads>>
    /\ UNCHANGED <<args, fs, list_content, text_content, pc, exit_code, file_paths, checked, body_src, body,
                   smtp_server, events, cred, ret, open_handles>>

AttachFile ==
    /\ pc = "attach"
    /\ attach_idx <= Len(file_paths)
    /\ \E ok \in BOOLEAN :
          /\ attach_log' = Append(attach_log, [path |-> file_paths[attach_idx], ok |-> ok])
          /\ IF ok
             THEN /\ message' = [message EXCEPT !.parts =
                        Append(@, BinaryPart(Basename(file_paths[attach_idx]),
                                            file_paths[attach_idx]))]
                  /\ reads' = Append(reads, file_paths[attach_idx])
                  /\ UNCHANGED success
             ELSE /\ success' = FALSE
                  /\ UNCHANGED <<message, reads>>
    /\ attach_idx' = attach_idx + 1
    /\ UNCHANGED <<args, fs, list_content, text_content, pc, exit_code, file_paths, checked, body_src, body,
                   smtp_server, events, cred, ret, open_handles>>

\* line 227 and lines 647-650
MainAttachDone ==
    /\ pc = "attach"
    /\ attach_idx > Len(file_paths)
    /\ IF ~success
       THEN Return(EXIT_ATTACHMENT_ERROR)
       ELSE pc' = "connect" /\ UNCHANGED exit_code
    /\ UNCHANGED <<args, fs, list_content, text_content, file_paths, checked, body_src, body, message,
                   attach_idx, attach_log, success, smtp_server, events, cred, ret,
                   open_handles, reads>>

(***************************************************************************)
(* send_email.  A raise inside the try block runs the matching except      *)
(* clause, which sets the return value; the finally clause runs before     *)
(* the function returns.                                                   *)
(***************************************************************************)
Called(op, res) == [op |-> op, res |-> res]

\* a failed connect tried once more
Connect_retry ==
    /\ pc = "connect"
    /\ \E res \in {"ok"} \cup ConnectRaises :
          /\ events' = Append(events, Called("connect", res))
          /\ IF res = "ok"
             THEN /\ smtp_server' = TRUE
                  /\ pc' = IF Truthy(args.auth) \/ TruthyObj(args.auth_file)
                           THEN "credentials" ELSE "send"
                  /\ UNCHANGED ret
             ELSE IF events = <<>>
                  THEN UNCHANGED <<pc, ret, smtp_server>>
                  ELSE /\ ret' = send_email_except(res)
                       /\ pc' = "finally"
                       /\ UNCHANGED smtp_server
    /\ UNCHANGED <<args, fs, list_content, text_content, exit_code, file_paths, checked, body_src, body,
                   message, attach_idx, attach_log, success, cred, open_handles, reads>>

\* lines 261-270: SMTP_SSL(...) or SMTP(...) connects in its constructor
Connect ==
    /\ pc = "connect"
    /\ \E res \in {"ok"} \cup ConnectRaises :
          /\ events' = Append(events, Called("connect", res))
          /\ IF res = "ok"
             THEN /\ smtp_server' = TRUE
                  /\ pc' = IF Truthy(args.auth) \/ TruthyObj(args.auth_file)
                           THEN "credentials" ELSE "send"
                  /\ UNCHANGED ret
             ELSE /\ ret' = send_email_except(res)
                  /\ pc' = "finally"
                  /\ UNCHANGED smtp_server
    /\ UNCHANGED <<args, fs, list_content, text_content, exit_code, file_paths, checked, body_src, body,
                   message, attach_idx, attach_log, success, cred, open_handles, reads>>

\* lines 271-275: read_auth_from_file closes the file in its finally clause
Credentials ==
    /\ pc = "credentials"
    /\ IF Truthy(args.auth)
       THEN /\ cred' = split_auth(args.auth.v)
            /\ UNCHANGED open_handles
       ELSE /\ cred' = read_auth_from_file(args.auth_file_ok, args.auth_file.v)
            /\ open_handles' = open_handles \ {"auth_file"}
    /\ IF cred'.ok
       THEN pc' = "login" /\ UNCHANGED ret
       ELSE ret' = send_email_except(cred'.exc) /\ pc' = "finally"
    /\ UNCHANGED <<args, fs, list_content, text_content, exit_code, file_paths, checked, body_src, body,
                   message, attach_idx, attach_log, success, smtp_server, events, reads>>

\* a failed login that is logged and followed by the send
Login_continue_on_failure ==
    /\ pc = "login"
    /\ \E res \in {"ok"} \cup LoginRaises :
          events' = Append(events, Called("login", res))
    /\ pc' = "send"
    /\ UNCHANGED <<args, fs, list_content, text_content, exit_code, file_paths, checked, body_src, body,
                   message, attach_idx, attach_log, success, smtp_server, cred, ret,
                   open_handles, reads>>

\* lines 277-285
Login ==
    /\ pc = "login"
    /\ \E res \in {"ok"} \cup LoginRaises :
          /\ events' = Append(events, Called("login", res))
          /\ IF res = "ok"
             THEN pc' = "send" /\ UNCHANGED ret
             ELSE ret' = login_except(res) /\ pc' = "finally"
    /\ UNCHANGED <<args, fs, list_content, text_content, exit_code, file_paths, checked, body_src, body,
                   message, attach_idx, attach_log, success, smtp_server, cred,
                   open_handles, reads>>

\* lines 287-289
SendMessage ==
    /\ pc = "send"
    /\ \E res \in {"ok"} \cup SendRaises :
          /\ events' = Append(events, Called("send_message", res))
          /\ ret' = IF res = "ok" THEN EXIT_SUCCESS ELSE send_email_except(res)
    /\ pc' = "finally"
    /\ UNCHANGED <<args, fs, list_content, text_content, exit_code, file_paths, checked, body_src, body,
                   message, attach_idx, attach_log, success, smtp_server, cred,
                   open_handles, reads>>

\* quit called at the end of the try block only, not in a finally clause
Finally_quit_on_success_only ==
    /\ pc = "finally"
    /\ IF smtp_server /\ ret = EXIT_SUCCESS
       THEN \E res \in {"ok"} \cup QuitRaises :
               events' = Append(events, Called("quit", res))
       ELSE UNCHANGED events
    /\ pc' = "returned"
    /\ UNCHANGED <<args, fs, list_content, text_content, exit_code, file_paths, checked, body_src, body,
                   message, attach_idx, attach_log, success, smtp_server, cred, ret,
                   open_handles, reads>>

\* a raise in quit that replaces the return value
Finally_quit_overrides ==
    /\ pc = "finally"
    /\ IF smtp_server
       THEN \E res \in {"ok"} \cup QuitRaises :
               /\ events' = Append(events, Called("quit", res))
               /\ ret' = IF res = "ok" THEN ret ELSE EXIT_UNKNOWN_ERROR
       ELSE UNCHANGED <<events, ret>>
    /\ pc' = "returned"
    /\ UNCHANGED <<args, fs, list_content, text_content, exit_code, file_paths, checked, body_src, body,
                   message, attach_idx, attach_log, success, smtp_server, cred,
                   open_handles, reads>>

\* lines 306-311: quit when a session object exists; a raise in quit is logged
Finally ==
    /\ pc = "finally"
    /\ IF smtp_server
       THEN \E res \in {"ok"} \cup QuitRaises :
               events' = Append(events, Called("quit", res))
       ELSE UNCHANGED events
    /\ pc' = "returned"
    /\ UNCHANGED <<args, fs, list_content, text_content, exit_code, file_paths, checked, body_src, body,
                   message, attach_idx, attach_log, success, smtp_server, cred, ret,
                   open_handles, reads>>

\* main ends with success whatever send_email returned
MainAfterSend_ignore_code ==
    /\ pc = "returned"
    /\ Return(EXIT_SUCCESS)
    /\ UNCHANGED <<args, fs, list_content, text_content, file_paths, checked, body_src, body, message,
                   attach_idx, attach_log, success, smtp_server, events, cred, ret,
                   open_handles, reads>>

\* lines 664-674: main returns send_email's code
MainAfterSend ==
    /\ pc = "returned"
    /\ IF ret # EXIT_SUCCESS THEN Return(ret) ELSE Return(EXIT_SUCCESS)
    /\ UNCHANGED <<args, fs, list_content, text_content, file_paths, checked, body_src, body, message,
                   attach_idx, attach_log, success, smtp_server, events, cred, ret,
                   open_handles, reads>>

Next ==
    \/ MainCheckArgs
    \/ MainValidateEmail
    \/ MainParseFilePaths
    \/ MainPrepare
    \/ AttachFile
    \/ MainAttachDone
    \/ Connect
    \/ Credentials
    \/ Login
    \/ SendMessage
    \/ Finally
    \/ MainAfterSend

Spec == Init /\ [][Next]_vars

(***************************************************************************)
(* Properties of a run of main.                                            *)
(***************************************************************************)
Did(op) == \E i \in 1..Len(events) : events[i].op = op
DidOk(op) == \E i \in 1..Len(events) : events[i].op = op /\ events[i].res = "ok"
Failed(op) == \E i \in 1..Len(events) : events[i].op = op /\ events[i].res # "ok"
FailedWith(op, set) == \E i \in 1..Len(events) : events[i].op = op /\ events[i].res \in set

\* send_email has returned to main
SendEmailReturned == pc = "returned" \/ (pc = "done" /\ ret # NoExit)

\* C1: once the SMTP session object exists (connect succeeded), quit has been
\* attempted by the time send_email returns, whatever the exit path.
C1_QuitBeforeReturn == (SendEmailReturned /\ DidOk("connect")) => Did("quit")

\* C1 witness: send_email returned after a failed login and quit was called.
C1_Witness ==
    /\ pc = "returned"
    /\ DidOk("connect")
    /\ Failed("login")
    /\ ret = EXIT_SMTP_AUTH_ERROR
    /\ Did("quit")

\* the connect failures the claim lists: refused connection, greeting failure, timeout
ListedConnectFailures == {"ConnectionRefusedError", "SMTPConnectError", "TimeoutError"}

\* C2: a run whose connect step fails by a refused connection, a greeting
\* failure or a timeout ends with exit code 5 and calls neither login nor
\* send_message.
C2_ConnectFailureExit5 ==
    (pc = "done" /\ FailedWith("connect", ListedConnectFailures))
        => /\ exit_code = EXIT_SMTP_CONNECTION_ERROR
           /\ ~Did("login")
           /\ ~Did("send_message")

\* C3: a run whose login step fails, by rejected credentials or by any other
\* exception, ends with exit code 6 and never calls send_message.
C3_LoginFailureExit6 ==
    /\ Failed("login") => ~Did("send_message")
    /\ (pc = "done" /\ Failed("login")) => exit_code = EXIT_SMTP_AUTH_ERROR

\* C3 witness: login failed with an exception other than rejected credentials.
C3_Witness ==
    /\ pc = "done"
    /\ FailedWith("login", {"SMTPHeloError"})
    /\ exit_code = EXIT_SMTP_AUTH_ERROR

\* the SMTP protocol errors of smtplib, and the two of them that send_email
\* reports as connection errors
SmtpProtocolErrors ==
    {"SMTPException", "SMTPResponseException", "SMTPConnectError", "SMTPHeloError",
     "SMTPDataError", "SMTPAuthenticationError", "SMTPSenderRefused",
     "SMTPRecipientsRefused", "SMTPServerDisconnected", "SMTPNotSupportedError"}
GreetingErrors == {"SMTPConnectError", "SMTPHeloError"}

\* C4 as stated: a failed send_message ends the run with exit code 7 for any
\* SMTP protocol error and 99 for anything else, never with 5 or 6.
C4_Original ==
    (pc = "done" /\ Failed("send_message"))
        => /\ FailedWith("send_message", SmtpProtocolErrors)
                => exit_code = EXIT_SMTP_SEND_ERROR
           /\ ~FailedWith("send_message", SmtpProtocolErrors)
                => exit_code = EXIT_UNKNOWN_ERROR
           /\ exit_code \notin {EXIT_SMTP_CONNECTION_ERROR, EXIT_SMTP_AUTH_ERROR}

\* C4 amended: a failed send_message ends the run with exit code 5 for an SMTP
\* connect or HELO error, 7 for any other SMTP protocol error, 99 for
\* anything else, and never with 6.
C4_SendFailureExit ==
    (pc = "done" /\ Failed("send_message"))
        => /\ FailedWith("send_message", GreetingErrors)
                => exit_code = EXIT_SMTP_CONNECTION_ERROR
           /\ FailedWith("send_message", SmtpProtocolErrors \ GreetingErrors)
                => exit_code = EXIT_SMTP_SEND_ERROR
           /\ ~FailedWith("send_message", SmtpProtocolErrors)
                => exit_code = EXIT_UNKNOWN_ERROR
           /\ exit_code # EXIT_SMTP_AUTH_ERROR

\* C4 witness: send_message raised SMTPHeloError and the run ended with 5.
C4_Witness ==
    /\ pc = "done"
    /\ FailedWith("send_message", {"SMTPHeloError"})
    /\ exit_code = EXIT_SMTP_CONNECTION_ERROR

\* C5: a run that ends with exit code 1, 8, 2 or 9 opened no SMTP connection
\* and read no body file or attachment for embedding; it did nothing after
\* the failing check.
C5_FailFastNoSideEffects ==
    (pc = "done" /\ exit_code \in {EXIT_ARGUMENT_ERROR, EXIT_INVALID_EMAIL,
                                   EXIT_FILE_NOT_FOUND, EXIT_NO_FILES})
        => /\ events = <<>>
           /\ reads = <<>>
           /\ attach_log = <<>>
           /\ body_src = "none"
           /\ ~message.built

\* C5 witness: resolution failed at the second path although a readable body
\* file was given.
C5_Witness ==
    /\ pc = "done"
    /\ exit_code = EXIT_FILE_NOT_FOUND
    /\ Len(checked) = 2
    /\ args.text_file.some
    /\ FsStatus(args.text_file.v) = "ok"

\* a credential that is not of the form username:password: an --auth value
\* without ":" (the empty string included), or, when the --auth value is
\* absent or empty, the stripped content of the --auth-file file without ":"
MalformedCredential ==
    \/ args.auth.some /\ ~HasChar(args.auth.v, ":")
    \/ /\ ~Truthy(args.auth)
       /\ args.auth_file.some
       /\ args.auth_file_ok
       /\ ~HasChar(Strip(args.auth_file.v), ":")

\* C6: a malformed credential is detected as a hard error before any network
\* connection is opened: in no run with a malformed credential is the SMTP
\* connect step performed.
C6_MalformedNeverConnects == MalformedCredential => ~Did("connect")

\* C8: every file handle the program opened is closed when the run ends, the
\* --auth-file handle included, on every exit path.
C8_AllHandlesClosed == pc = "done" => open_handles = {}

\* attach_files has returned
AttachReturned ==
    \/ pc \in {"connect", "credentials", "login", "send", "finally", "returned"}
    \/ pc = "done" /\ message.built

\* C9: attach_files tries every source, also after a failure, and returns
\* False exactly when a source failed; the run then ends with exit code 4
\* and makes no SMTP call.
C9_ContinueOnError ==
    /\ AttachReturned
         => /\ Len(attach_log) = Len(file_paths)
            /\ \A i \in 1..Len(file_paths) : attach_log[i].path = file_paths[i]
            /\ ~success <=> \E i \in 1..Len(attach_log) : ~attach_log[i].ok
    /\ (AttachReturned /\ ~success) => events = <<>>
    /\ (pc = "done" /\ message.built /\ ~success) => exit_code = EXIT_ATTACHMENT_ERROR

\* C9 witness: the first source failed, the second was still embedded, and
\* the run ended with exit code 4.
C9_Witness ==
    /\ pc = "done"
    /\ exit_code = EXIT_ATTACHMENT_ERROR
    /\ Len(attach_log) = 2
    /\ ~attach_log[1].ok
    /\ attach_log[2].ok
    /\ Len(message.parts) = 2

(***************************************************************************)
(* Credential parsing on its own: send_email at line 270, connected, with  *)
(* every credential string up to MaxCredLen characters, inline or in the   *)
(* credential file.                                                        *)
(***************************************************************************)
MaxCredLen == 4

CredAlphabet == {"u", "p", ":", " "}
CredStrings == UNION {[1..n -> CredAlphabet] : n \in 0..MaxCredLen}

\* main has resolved one attachment, built the message and connected
InitAfterConnect ==
    /\ fs = (<<"a">> :> "ok") @@ (<<"b">> :> "missing") @@ (ListPath :> "missing")
            @@ (TextPath :> "missing")
    /\ list_content = [ok |-> FALSE, v |-> <<>>]
    /\ text_content = Unread
    /\ pc = "credentials"
    /\ exit_code = NoExit
    /\ file_paths = << <<"a">> >>
    /\ checked = << <<"a">> >>
    /\ body_src = "manifest"
    /\ body = generate_default_email_body(<< <<"a">> >>, None)
    /\ message = [create_message(ADMIN_MAIL, ValidTo, DEFAULT_SUBJECT,
                                 generate_default_email_body(<< <<"a">> >>, None))
                  EXCEPT !.parts = Append(@, BinaryPart(<<"a">>, <<"a">>))]
    /\ attach_idx = 2
    /\ attach_log = <<[path |-> <<"a">>, ok |-> TRUE]>>
    /\ success = TRUE
    /\ smtp_server = TRUE
    /\ events = <<Called("connect", "ok")>>
    /\ cred = NoCredential
    /\ ret = NoExit
    /\ reads = << <<"a">> >>
    /\ open_handles = IF args.auth_file.some THEN {"auth_file"} ELSE {}

InitCred ==
    /\ \E c \in CredStrings, inline \in BOOLEAN :
          /\ inline => c # <<>>
          /\ args = [text |-> None, text_file |-> None,
                     auth |-> IF inline THEN Some(c) ELSE None,
                     auth_file |-> IF inline THEN None ELSE Some(c),
                     auth_file_ok |-> TRUE,
                     sender |-> None, to |-> ValidTo, subject |-> DEFAULT_SUBJECT,
                     files |-> Some(<<"a">>), files_list |-> None]
    /\ InitAfterConnect

NextCred == Credentials

SpecCred == InitCred /\ [][NextCred]_vars

\* the string the credential is parsed from
CredentialText == IF Truthy(args.auth) THEN args.auth.v ELSE Strip(args.auth_file.v)

\* C7: a credential string with a colon is split at its first colon only
\* (username before it, password everything after it), and a string without
\* a colon is a format error; for the inline and the credential-file form.
C7_SplitOnFirstColon ==
    pc \in {"login", "finally"}
        => LET k == FirstIn(CredentialText, 1, {":"})
           IN  IF k > 0
               THEN /\ cred.ok
                    /\ cred.username = SubSeq(CredentialText, 1, k - 1)
                    /\ cred.password = SubSeq(CredentialText, k + 1, Len(CredentialText))
               ELSE ~cred.ok

(***************************************************************************)
(* parse_file_paths on its own: main at line 630, with every --files value *)
(* and every list-file content up to MaxSpecLen characters.                *)
(***************************************************************************)
MaxSpecLen == 5

InlineAlphabet == {"a", "b", ",", " "}
ListAlphabet == {"a", "b", "\n", " "}
\* entries with white space that has no escape, and with path text that
\* Path() normalises: "<NBSP>", "a<VT>", "a/", "./b"
SpecialEntries == {<<"U+00A0">>, <<"a", "U+000B">>, <<"a", "/">>, <<".", "/", "b">>}

InlineStrings ==
    UNION {[1..n -> InlineAlphabet] : n \in 0..MaxSpecLen}
        \cup SpecialEntries \cup {e \o <<",", "b">> : e \in SpecialEntries}
ListStrings ==
    UNION {[1..n -> ListAlphabet] : n \in 0..MaxSpecLen}
        \cup SpecialEntries \cup {e \o <<"\n", "b">> : e \in SpecialEntries}

InitResolve ==
    /\ \E inline \in BOOLEAN :
       \E x \in IF inline THEN InlineStrings ELSE {<<>>} :
          args = [text |-> None, text_file |-> None, auth |-> None,
                  auth_file |-> None, auth_file_ok |-> TRUE,
                  sender |-> None, to |-> ValidTo, subject |-> DEFAULT_SUBJECT,
                  files |-> IF inline THEN Some(x) ELSE None,
                  files_list |-> IF inline THEN None ELSE Some(ListPath)]
    /\ \E sa \in Statuses, sb \in {"ok", "missing"}, sl \in Statuses :
          /\ (~args.files_list.some => sl = "missing")
          /\ fs = (<<"a">> :> sa) @@ (<<"b">> :> sb) @@ (ListPath :> sl)
                  @@ (TextPath :> "missing")
    /\ list_content \in
          IF args.files_list.some /\ fs[ListPath] = "ok"
          THEN {[ok |-> FALSE, v |-> c] : c \in ListPrefixes}
                   \cup {[ok |-> TRUE, v |-> c] : c \in ListStrings}
          ELSE {Unread}
    /\ text_content = Unread
    /\ InitRun
    /\ pc = "parse_files"
    /\ file_paths = <<>>
    /\ checked = <<>>

NextResolve == MainParseFilePaths

SpecResolve == InitResolve /\ [][NextResolve]_vars

\* the trimmed, non-blank pieces
NonBlank(pieces) ==
    SelectSeq([i \in 1..Len(pieces) |-> Strip(pieces[i])], LAMBDA x : x # <<>>)

AsPaths(pieces) == [i \in 1..Len(pieces) |-> PathOf(pieces[i])]

\* the paths of the input in input order: in list-file mode the list file
\* itself, then its lines when it can be read
Candidates ==
    IF args.files_list.some
    THEN <<args.files_list.v>> \o
         (IF validate_file_path(args.files_list.v) = "True"
          THEN AsPaths(NonBlank(Lines(list_content.v))) ELSE <<>>)
    ELSE AsPaths(NonBlank(Split(args.files.v, ",")))

\* index of the first candidate that is missing, not a file or unreadable; 0 when none
FirstBad ==
    IF \E k \in 1..Len(Candidates) : FsStatus(Candidates[k]) # "ok"
    THEN CHOOSE k \in 1..Len(Candidates) :
            /\ FsStatus(Candidates[k]) # "ok"
            /\ \A m \in 1..(k - 1) : FsStatus(Candidates[m]) = "ok"
    ELSE 0

\* parse_file_paths has returned to main
ParseReturned ==
    /\ pc \notin {"check_args", "validate_email", "parse_files"}
    /\ pc = "done" => exit_code \notin {EXIT_ARGUMENT_ERROR, EXIT_INVALID_EMAIL}

\* C10: in both input modes paths are checked in input order, and at the
\* first path that does not exist, is not a regular file or is not readable
\* (its test gives False, or raises because the path cannot be reached) the
\* result is the empty list with code 2, no later path having been checked.
C10_FailFast ==
    (ParseReturned /\ FirstBad > 0)
        => /\ file_paths = <<>>
           /\ checked = SubSeq(Candidates, 1, FirstBad)
           /\ pc = "done"
           /\ exit_code = EXIT_FILE_NOT_FOUND

\* the trimmed, non-blank segments of --files, or lines of the list file
Entries == IF args.files_list.some THEN Tail(Candidates) ELSE Candidates

\* the list file, when one is named, is valid and can be read
ListFileReadable ==
    args.files_list.some
        => (validate_file_path(args.files_list.v) = "True" /\ list_content.ok)

\* C11: when every path is valid, parse_file_paths succeeds with exactly the
\* trimmed non-blank segments (or lines) of the input, in input order,
\* duplicates kept; blank segments and lines are skipped without an error.
C11_ResolvesInOrder ==
    (ParseReturned /\ ListFileReadable /\ Entries # <<>> /\ FirstBad = 0)
        => /\ file_paths = Entries
           /\ pc = "prepare"
           /\ exit_code = NoExit

\* C11 witness: a list file "a", blank line, "a" resolved to <<a, a>>.
C11_Witness ==
    /\ pc = "prepare"
    /\ args.files_list.some
    /\ Len(Lines(list_content.v)) = 3
    /\ file_paths = << <<"a">>, <<"a">> >>

\* C12: when the input has no non-blank entry (empty, blanks and commas
\* only, or a readable list file of blank lines), parse_file_paths returns
\* the no-files code 9: not code 2, and not success with an empty list.
C12_NoFiles ==
    (ParseReturned /\ ListFileReadable /\ Entries = <<>>)
        => /\ pc = "done"
           /\ exit_code = EXIT_NO_FILES
           /\ file_paths = <<>>

\* C12 witness: --files ", " (a comma and a blank) gave code 9.
C12_Witness ==
    /\ pc = "done"
    /\ exit_code = EXIT_NO_FILES
    /\ args.files.some
    /\ HasChar(args.files.v, ",")

(***************************************************************************)
(* The body on its own.  get_email_body is called directly with every      *)
(* combination of --text, --text-file and --from (main never calls it with *)
(* an inline text and a text file together: lines 608-612 return first),   *)
(* and by main at line 639 with the combinations main lets through; main   *)
(* then goes on to delivery without credentials.                           *)
(***************************************************************************)
ResolvedLists == UNION {[1..n -> FileNames \cup {DirFile}] : n \in 1..MaxFiles}

\* --text values for the body: absent, "" and "hi"
BodyTextOpts == {None, Some(<<>>), Some(<<"h", "i">>)}

\* what reading the body file gives: as TextReads, and an empty file
BodyFileReads(status) ==
    IF status = "ok" THEN TextReads(status) \cup {[ok |-> TRUE, v |-> <<>>]}
    ELSE TextReads(status)

InitBody ==
    /\ file_paths \in ResolvedLists
    /\ checked = file_paths
    /\ \E text \in BodyTextOpts, text_file \in TextFileOpts,
          sender \in {None, Some(<<>>), Some(ValidSender)} :
          args = [text |-> text, text_file |-> text_file, auth |-> None,
                  auth_file |-> None, auth_file_ok |-> TRUE,
                  sender |-> sender, to |-> ValidTo, subject |-> DEFAULT_SUBJECT,
                  files |-> Some(Join(file_paths, ",")), files_list |-> None]
    /\ \E st \in Statuses :
          /\ (~args.text_file.some => st = "missing")
          /\ fs = (<<"a">> :> "ok") @@ (<<"b">> :> "ok") @@ (DirFile :> "ok")
                  @@ (ListPath :> "missing") @@ (TextPath :> st)
    /\ text_content \in IF args.text_file.some THEN BodyFileReads(fs[TextPath]) ELSE {Unread}
    /\ list_content = Unread
    /\ InitRun
    /\ \/ pc = "get_email_body"
       \/ pc = "prepare" /\ ~(Truthy(args.text) /\ TruthyObj(args.text_file))

\* lines 366-399: a call of get_email_body(args, file_paths) and its return
CallGetEmailBody ==
    /\ pc = "get_email_body"
    /\ body_src' = get_email_body_source
    /\ reads' = IF BodyFileOpened THEN Append(reads, args.text_file.v) ELSE reads
    /\ body' = get_email_body(args, file_paths)
    /\ pc' = "get_email_body_returned"
    /\ UNCHANGED <<args, fs, list_content, text_content, exit_code, file_paths, checked,
                   message, attach_idx, attach_log, success, smtp_server, events, cred,
                   ret, open_handles>>

NextBody ==
    \/ CallGetEmailBody
    \/ MainPrepare
    \/ AttachFile
    \/ MainAttachDone
    \/ Connect
    \/ SendMessage
    \/ Finally
    \/ MainAfterSend

SpecBody == InitBody /\ [][NextBody]_vars

EndsWith(s, suffix) ==
    Len(suffix) <= Len(s) /\ SubSeq(s, Len(s) - Len(suffix) + 1, Len(s)) = suffix
StartsWith(s, prefix) ==
    Len(prefix) <= Len(s) /\ SubSeq(s, 1, Len(prefix)) = prefix

\* get_email_body has returned
BodyReturned == pc \notin {"get_email_body", "prepare"}

\* the signature block: disclaimer and reply-to line, naming the sender or,
\* without one, the administrative address
SignatureBlock ==
    SIGNATURE \o REPLY_TO_PREFIX \o (IF Truthy(args.sender) THEN args.sender.v ELSE ADMIN_MAIL)

\* the body text file can be opened and its content decoded
ReadableTextFile ==
    args.text_file.some /\ FsStatus(args.text_file.v) = "ok" /\ text_content.ok
UnreadableTextFile == args.text_file.some /\ ~ReadableTextFile

\* C13: the body is the content of a readable text file (inline text, if
\* any, ignored), else the inline text, else the generated manifest; in each
\* case followed by the signature block naming the sender or else the
\* administrative address.
C13_BodyPriority ==
    BodyReturned
        => /\ ReadableTextFile => body = text_content.v \o SignatureBlock
           /\ (~ReadableTextFile /\ Truthy(args.text)) => body = args.text.v \o SignatureBlock
           /\ (~ReadableTextFile /\ ~Truthy(args.text))
                => /\ StartsWith(body, MANIFEST_HEADER)
                   /\ EndsWith(body, SignatureBlock)
                   /\ body_src = "manifest"

\* C13 witness: get_email_body called with a readable text file and an inline
\* text together; the body is the file's content and the signature with the
\* sender's address.
C13_Witness ==
    /\ pc = "get_email_body_returned"
    /\ ReadableTextFile
    /\ Truthy(args.text)
    /\ Truthy(args.sender)
    /\ text_content.v # <<>>
    /\ body = text_content.v \o SignatureBlock

\* some step other than reading the body file failed
OtherFailure ==
    \/ \E i \in 1..Len(attach_log) : ~attach_log[i].ok
    \/ \E i \in 1..Len(events) : events[i].op # "quit" /\ events[i].res # "ok"

\* C14: a body text file that cannot be read is not fatal: get_email_body
\* returns the inline text, or without one the manifest, plus signature; the
\* run goes on to message building, embedding and delivery, and ends with a
\* nonzero code only when something else failed.
C14_UnreadableBodyFileNotFatal ==
    UnreadableTextFile
        => /\ BodyReturned
                => /\ EndsWith(body, SignatureBlock)
                   /\ IF Truthy(args.text)
                      THEN body = args.text.v \o SignatureBlock /\ body_src = "text"
                      ELSE StartsWith(body, MANIFEST_HEADER) /\ body_src = "manifest"
           /\ (BodyReturned /\ pc # "get_email_body_returned")
                => /\ message.built
                   /\ message.parts[1] = TextPart(body)
           /\ (pc = "done" /\ exit_code # EXIT_SUCCESS) => OtherFailure
           /\ (pc = "done" /\ ~OtherFailure) => (exit_code = EXIT_SUCCESS /\ DidOk("send_message"))

\* C14 witness: in a run of main the text file exists but could not be
\* decoded, the manifest was sent, and the run ended with exit code 0.
C14_Witness ==
    /\ pc = "done"
    /\ exit_code = EXIT_SUCCESS
    /\ UnreadableTextFile
    /\ FsStatus(args.text_file.v) = "ok"
    /\ body_src = "manifest"
    /\ DidOk("send_message")

\* C14 witness of the call: get_email_body with an unreadable text file and
\* an inline text returned the inline text and signature.
C14_WitnessInlineText ==
    /\ pc = "get_email_body_returned"
    /\ UnreadableTextFile
    /\ Truthy(args.text)
    /\ body = args.text.v \o SignatureBlock

(***************************************************************************)
(* validate_email on its own: main at line 620 with the recipient drawn    *)
(* from every string up to MaxEmailLen over EmailAlphabet and from the     *)
(* addresses local@label.label.label with labels up to MaxLabelLen.        *)
(***************************************************************************)
MaxEmailLen == 6
MaxLabelLen == 2

EmailAlphabet == {"a", "1", "@", ".", "-", "!"}
LabelAlphabet == {"a", "0"}

\* every string but "--", which argparse does not deliver as the value of --to
EmailStrings ==
    UNION {[1..n -> EmailAlphabet] : n \in 0..MaxEmailLen} \ {<<"-", "-">>}
Labels == UNION {[1..n -> LabelAlphabet] : n \in 1..MaxLabelLen}
FormAddresses ==
    {l \o <<"@">> \o s \o <<".">> \o e \o <<".">> \o c : l, s, e, c \in Labels}

InitEmail ==
    /\ \E to \in EmailStrings \cup FormAddresses, sender \in {None, Some(ValidSender)} :
          args = [text |-> None, text_file |-> None, auth |-> None,
                  auth_file |-> None, auth_file_ok |-> TRUE,
                  sender |-> sender, to |-> to, subject |-> DEFAULT_SUBJECT,
                  files |-> Some(<<"a">>), files_list |-> None]
    /\ fs = (<<"a">> :> "ok") @@ (<<"b">> :> "ok") @@ (DirFile :> "ok")
            @@ (ListPath :> "missing") @@ (TextPath :> "missing")
    /\ list_content = [ok |-> FALSE, v |-> <<>>]
    /\ text_content = Unread
    /\ InitRun
    /\ pc = "validate_email"
    /\ file_paths = <<>>
    /\ checked = <<>>

NextEmail == MainValidateEmail

SpecEmail == InitEmail /\ [][NextEmail]_vars

\* the recipient was tested: main returned 8 or went on to the attachments
EmailRejected == pc = "done" /\ exit_code = EXIT_INVALID_EMAIL
EmailAccepted == pc = "parse_files" /\ exit_code = NoExit

\* the part of s after its first "@"
AfterAt(s) == SubSeq(s, FirstIn(s, 1, {"@"}) + 1, Len(s))

AllIn(s, set) == \A k \in 1..Len(s) : s[k] \in set

\* user@sub.example.com: one "@", a local part and three domain labels, each
\* a non-empty run of letters and digits
IsFormAddress(s) ==
    LET halves == Split(s, "@")
    IN  /\ Len(halves) = 2
        /\ halves[1] # <<>> /\ AllIn(halves[1], Alnum)
        /\ LET labels == Split(halves[2], ".")
           IN  /\ Len(labels) = 3
               /\ \A i \in 1..3 : labels[i] # <<>> /\ AllIn(labels[i], Alnum)

\* C15: a recipient without "@", without a dot after the "@", or empty is
\* rejected; a recipient of the form user@sub.example.com is accepted.
C15_RejectsMalformedAcceptsForm ==
    pc # "validate_email"
        => /\ ~HasChar(args.to, "@") => EmailRejected
           /\ (HasChar(args.to, "@") /\ ~HasChar(AfterAt(args.to), ".")) => EmailRejected
           /\ args.to = <<>> => EmailRejected
           /\ IsFormAddress(args.to) => EmailAccepted

\* C15 witness: an address of the form user@sub.example.com with labels of
\* more than one character was accepted.
C15_Witness ==
    /\ EmailAccepted
    /\ IsFormAddress(args.to)
    /\ Len(args.to) > 8

\* C15 witness of the rejecting side: a string with "@" and no dot after it.
C15_WitnessRejected ==
    /\ EmailRejected
    /\ HasChar(args.to, "@")
    /\ ~HasChar(AfterAt(args.to), ".")
    /\ Len(args.to) = MaxEmailLen

\* local@domain with the local part of letters, digits, _ . + - and the
\* domain of letters, digits, "-" and dots, at least one dot
ConservativeShape(s) ==
    LET at == FirstIn(s, 1, {"@"})
    IN  /\ at > 1
        /\ AllIn(SubSeq(s, 1, at - 1), Alnum \cup {"_", ".", "+", "-"})
        /\ AfterAt(s) # <<>>
        /\ AllIn(AfterAt(s), Alnum \cup {"-", "."})
        /\ HasChar(AfterAt(s), ".")

\* C16: only a recipient of the conservative shape is accepted; one with any
\* other character in the domain part is rejected.
C16_AcceptsOnlyConservativeShape ==
    EmailAccepted => ConservativeShape(args.to)

(***************************************************************************)
(* Delivery: the steps of send_email as recorded in events.                *)
(***************************************************************************)
Count(op) == Cardinality({i \in 1..Len(events) : events[i].op = op})

StepRank(op) ==
    CASE op = "connect" -> 1 [] op = "login" -> 2 [] op = "send_message" -> 3
      [] op = "quit" -> 4

\* C17: connect, login and send_message are each performed at most once in a
\* run, and no step is followed by an earlier step or by itself.
C17_NoRetry ==
    /\ \A op \in {"connect", "login", "send_message"} : Count(op) <= 1
    /\ \A i, j \in 1..Len(events) :
          i < j => StepRank(events[i].op) < StepRank(events[j].op)

\* C17 witness: a run that ended on a failed login after one connect and one
\* login, without a send.
C17_Witness ==
    /\ pc = "done"
    /\ Failed("login")
    /\ Count("connect") = 1
    /\ Count("login") = 1
    /\ Count("send_message") = 0

\* every attachment was embedded and no delivery step or credential parse
\* failed
NoStageFailed ==
    /\ Len(attach_log) = Len(file_paths)
    /\ \A i \in 1..Len(attach_log) : attach_log[i].ok
    /\ \A i \in 1..Len(events) : events[i].op # "quit" => events[i].res = "ok"
    /\ cred.exc = "none"

\* the arguments pass main's checks and the attachment resolution
InputsValid ==
    /\ ~(Truthy(args.text) /\ TruthyObj(args.text_file))
    /\ ~(Truthy(args.auth) /\ TruthyObj(args.auth_file))
    /\ Truthy(args.sender) => validate_email(args.sender.v)
    /\ validate_email(args.to)
    /\ ListFileReadable
    /\ Entries # <<>>
    /\ FirstBad = 0

\* the manifest: the header line, then "i. basename" for the i-th resolved
\* attachment
ExpectedManifest ==
    MANIFEST_HEADER
        \o Join([i \in 1..Len(file_paths) |->
                    ToDecimal(i) \o <<".", " ">> \o Basename(file_paths[i])], "\n")

\* C18: with valid inputs, neither body text nor text file, and no failing
\* stage, the run ends with exit code 0 after send_message, and the message
\* has its headers set, the manifest with signature as its first and only
\* text part, and then one binary part per resolved attachment, in order,
\* named by the basename.
C18_EndToEndMessage ==
    (pc = "done" /\ InputsValid /\ ~Truthy(args.text) /\ ~TruthyObj(args.text_file)
        /\ NoStageFailed)
        => /\ exit_code = EXIT_SUCCESS
           /\ DidOk("send_message")
           /\ message.built
           /\ message.From = (IF Truthy(args.sender) THEN args.sender.v ELSE ADMIN_MAIL)
           /\ message.To = args.to
           /\ message.Subject = args.subject
           /\ file_paths = Entries
           /\ Len(message.parts) = 1 + Len(file_paths)
           /\ message.parts[1] = TextPart(ExpectedManifest \o SignatureBlock)
           /\ \A i \in 1..Len(file_paths) :
                 /\ message.parts[i + 1].kind = "bin"
                 /\ message.parts[i + 1].name = Basename(file_paths[i])
                 /\ message.parts[i + 1].payload = file_paths[i]

\* C18 witness: "d/c" and "a" were sent; the manifest and the binary parts
\* name the first one "c".
C18_Witness ==
    /\ pc = "done"
    /\ exit_code = EXIT_SUCCESS
    /\ body_src = "manifest"
    /\ file_paths = <<DirFile, <<"a">> >>
    /\ Len(message.parts) = 3
    /\ message.parts[2].name = <<"c">>
    /\ message.parts[1].payload = ExpectedManifest \o SignatureBlock

\* a credential was supplied: a non-empty --auth or an --auth-file
CredentialSupplied == Truthy(args.auth) \/ TruthyObj(args.auth_file)

\* C19: login only after a successful connect and only with a credential
\* supplied; send_message only after a successful connect and, with a
\* credential supplied, after a successful login; without a credential the
\* step after connect is send_message and no authentication error results.
C19_SessionOrder ==
    /\ Did("login")
          => /\ CredentialSupplied
             /\ events[1] = Called("connect", "ok")
             /\ events[2].op = "login"
    /\ Did("send_message")
          => /\ events[1] = Called("connect", "ok")
             /\ IF CredentialSupplied
                THEN events[2] = Called("login", "ok") /\ events[3].op = "send_message"
                ELSE events[2].op = "send_message"
    /\ (~CredentialSupplied /\ DidOk("connect"))
          => /\ pc \notin {"credentials", "login"}
             /\ cred = NoCredential
             /\ pc = "send" \/ Did("send_message")
             /\ ret # EXIT_SMTP_AUTH_ERROR
             /\ exit_code # EXIT_SMTP_AUTH_ERROR

\* C19 witness: no credential, and the run went from connect to send_message
\* and ended with exit code 0.
C19_Witness ==
    /\ pc = "done"
    /\ ~CredentialSupplied
    /\ exit_code = EXIT_SUCCESS
    /\ Len(events) = 3
    /\ events[1] = Called("connect", "ok")
    /\ events[2] = Called("send_message", "ok")

\* C19 witness with a credential: login between connect and send_message.
C19_WitnessLogin ==
    /\ pc = "done"
    /\ CredentialSupplied
    /\ Len(events) = 4
    /\ events[2] = Called("login", "ok")
    /\ events[3].op = "send_message"

\* C20: the cleanup step leaves send_email's return value as it was, whether
\* quit raises or not, and send_email then returns that value to main, which
\* ends with it.
C20_QuitKeepsResult ==
    [][/\ pc = "finally" => (ret' = ret /\ pc' = "returned")
       /\ pc = "returned" => (exit_code' = ret /\ pc' = "done")]_vars

\* C20 witness: quit raised after a successful send and the run ended with
\* exit code 0.
C20_Witness ==
    /\ pc = "done"
    /\ Failed("quit")
    /\ DidOk("send_message")
    /\ exit_code = EXIT_SUCCESS

(***************************************************************************)
(* Exit codes of whole runs.                                               *)
(***************************************************************************)
\* read_auth_from_file raised AuthError: the credential file could not be
\* read, or its content is not username:password
AuthFileRejected == cred.exc = "AuthError"

\* C21: when read_auth_from_file raises AuthError the run ends with exit
\* code 6, not 99.
C21_AuthFileErrorExit6 ==
    (pc = "done" /\ AuthFileRejected) => exit_code = EXIT_SMTP_AUTH_ERROR

ExitCodes ==
    {EXIT_ARGUMENT_ERROR, EXIT_FILE_NOT_FOUND, EXIT_FILE_READ_ERROR, EXIT_ATTACHMENT_ERROR,
     EXIT_SMTP_CONNECTION_ERROR, EXIT_SMTP_AUTH_ERROR, EXIT_SMTP_SEND_ERROR,
     EXIT_INVALID_EMAIL, EXIT_NO_FILES, EXIT_UNKNOWN_ERROR}

\* C22: a run ends with exit code 0 exactly when send_message was called and
\* returned; a run in which an input was rejected or a stage up to the send
\* failed ends with one of the nonzero codes 1..9, 99.
C22_ZeroIffSent ==
    pc = "done"
        => /\ exit_code = EXIT_SUCCESS <=> DidOk("send_message")
           /\ exit_code # EXIT_SUCCESS => exit_code \in ExitCodes
           /\ (~InputsValid \/ ~NoStageFailed) => exit_code \in ExitCodes

\* C22 witness: send_message raised after a successful login and the run
\* ended with a nonzero code.
C22_Witness ==
    /\ pc = "done"
    /\ DidOk("login")
    /\ Failed("send_message")
    /\ exit_code \in ExitCodes

\* C22 witness of the other side: every attachment but one was embedded, so
\* nothing was sent and the run ended with code 4.
C22_WitnessAttachment ==
    /\ pc = "done"
    /\ \E i \in 1..Len(attach_log) : ~attach_log[i].ok
    /\ \E i \in 1..Len(attach_log) : attach_log[i].ok
    /\ ~Did("connect")
    /\ exit_code = EXIT_ATTACHMENT_ERROR
====
